---- MODULE Spec2Model ----
(***************************************************************************)
(* Model of pomidor.py: the session loop of main, the countdown and        *)
(* completion loops of run_timer, and the raw-mode scope of get_key.       *)
(*                                                                         *)
(* Time is counted in whole units.  time.time() is the variable clock; it  *)
(* advances while get_key waits in select (up to MaxStep units per poll,   *)
(* which also stands for the rendering time before the poll) and between   *)
(* two reads of the clock inside one loop iteration (up to MaxLag units).  *)
(***************************************************************************)
EXTENDS Integers, Sequences, FiniteSets, TLC

\* ---------------------------------------------------------------- bounds
MaxLen == 2          \* configured interval lengths range over 0..MaxLen
MaxStep == 2         \* wall-clock units that may pass during one poll
MaxLag == 1          \* wall-clock units between two clock reads of one iteration
Horizon == 4         \* the clock stops advancing Horizon units after the start
MaxIntervals == 3    \* intervals started in one session
StartClock == 2      \* time.time() when the session loop begins
MaxPending == 2      \* bytes typed and not yet read or discarded
MaxDur == 3700       \* whole-second durations formatted range over 0..MaxDur
MaxText == 4         \* length of the texts handed to parse_duration

\* ------------------------------------------------------ program constants
SoundPeriod == 2     \* seconds between two play_sound calls

MaxClock == StartClock + Horizon

NoKey == "None"      \* get_key timed out: returns None
EOF == ""            \* sys.stdin.read(1) at end of input: the empty string
Toggle == " "
Skip == "s"
Quit == "q"
Other == "x"         \* any byte that is none of the three bound keys
Chars == {Toggle, Skip, Quit, Other, EOF}

Aborted == "None"    \* run_timer returned None
Skipped == "skip"    \* run_timer returned "skip"
Finished == "True"   \* run_timer returned True

VARIABLES
    pc,            \* position of the single thread in main / run_timer
    gk,            \* position inside get_key ("idle" outside it)
    term,          \* terminal mode of stdin
    old_settings,  \* get_key's local: attributes saved at entry
    key,           \* value returned by the last get_key
    label,         \* label of the current interval
    autostart,     \* main's local
    remaining, running, last_tick, last_sound,   \* run_timer's locals
    clock,         \* time.time()
    result,        \* value returned by the last run_timer call
    focus, break_time,   \* the configured lengths (main's locals)
    out,           \* what the last step wrote to the terminal / played
    \* history variables, read by properties only
    started,       \* number of intervals started so far
    t0,            \* clock at the end of the previous tick (or interval start)
    last,          \* the previous tick of this interval: key, elapsed, state before,
                   \* and whether it was the second of two toggles with no time elapsed
    runTime,       \* wall-clock time this interval has spent with running = TRUE
    announced,     \* play_sound has been called in this interval
    unwound,       \* get_key position a KeyboardInterrupt unwound from
    sound_at,      \* clock at the last call of play_sound in this interval
    \* the keyboard (used by SpecKeys; empty and constant under Spec)
    tty_in,        \* bytes typed and held in the terminal's input queue
    stdin_buf,     \* bytes read from the terminal and held in sys.stdin's buffer
    qPressed,      \* history: "q" has been typed and no poll has returned it yet
    qAtPoll,       \* history: qPressed when the current get_key call began
    \* the duration codec (used by SpecCodec; idle and constant elsewhere)
    cpc,           \* "idle", "formatted", "typed", "parsed"
    origin,        \* where the text came from: "format" or "input"
    dur,           \* the duration given to format_duration
    text,          \* the text given to parse_duration, a sequence of characters
    fallback,      \* parse_duration's default_secs
    parsed,        \* what parse_duration returned
    \* startup (used by SpecStartup; constant elsewhere)
    spc,           \* position in main's lines 182-188
    file,          \* what CACHE_FILE holds when load_defaults runs
    defaults,      \* what load_defaults returned
    given,         \* the default_secs handed to the prompts so far
    err,           \* the exception that left main, "-" if none
    \* the environment of the liveness specification
    quiet          \* no bound key arrives any more and every poll takes time

vars == <<pc, gk, term, old_settings, key, label, autostart, remaining, running,
          last_tick, last_sound, clock, result, focus, break_time, out,
          started, t0, last, runTime, announced, unwound, sound_at,
          tty_in, stdin_buf, qPressed, qAtPoll,
          cpc, origin, dur, text, fallback, parsed,
          spc, file, defaults, given, err, quiet>>

\* The variables of the session loop, run_timer and get_key.
timerAll == <<pc, gk, term, old_settings, key, label, autostart, remaining, running,
              last_tick, last_sound, clock, result, focus, break_time, out,
              started, t0, last, runTime, announced, unwound, sound_at>>
kbVars == <<tty_in, stdin_buf, qPressed, qAtPoll>>
codecVars == <<cpc, origin, dur, text, fallback, parsed>>
startVars == <<spc, file, defaults, given, err>>

cfgVars == <<focus, break_time>>
timerVars == <<remaining, running, last_tick>>
ghostTick == <<t0, last, runTime>>

NoTick == [key |-> "-", d |-> 0, run0 |-> FALSE, rem0 |-> 0, pair |-> FALSE]

Init ==
    /\ pc = "call_focus"
    /\ gk = "idle"
    /\ term = "cooked"
    /\ old_settings = "unset"
    /\ key = NoKey
    /\ label = "-"
    /\ autostart = FALSE
    /\ remaining = 0
    /\ running = FALSE
    /\ last_tick = 0
    /\ last_sound = 0
    /\ clock = StartClock
    /\ result = "-"
    /\ focus \in 0..MaxLen
    /\ break_time \in 0..MaxLen
    /\ out = {}
    /\ started = 0
    /\ t0 = StartClock
    /\ last = NoTick
    /\ runTime = 0
    /\ announced = FALSE
    /\ unwound = "-"
    /\ sound_at = 0
    /\ tty_in = <<>>
    /\ stdin_buf = <<>>
    /\ qPressed = FALSE
    /\ qAtPoll = FALSE
    /\ cpc = "idle"
    /\ origin = "-"
    /\ dur = 0
    /\ text = <<>>
    /\ fallback = 0
    /\ parsed = [kind |-> "-"]
    /\ spc = "start"
    /\ file = [kind |-> "-"]
    /\ defaults = [kind |-> "-"]
    /\ given = <<>>
    /\ err = "-"
    /\ quiet = FALSE

\* History of play_sound: the clock at its last call in the current interval
\* (0 when it has not been called, and after the frames are gone).
SoundHistory ==
    sound_at' = IF pc = "announce" /\ "announce" \in out' THEN clock
                ELSE IF started' # started \/ pc' = "interrupted" THEN 0
                ELSE sound_at

\* What a step of the program leaves alone when the keyboard is not modelled.
Frame == SoundHistory /\ UNCHANGED <<kbVars, codecVars, startVars, quiet>>

\* ------------------------------------------------------------- run_timer
\* Lines 132-143: the locals are set from the arguments and the header and the
\* first status line are printed.
RunTimerStart(duration_secs, lbl, auto) ==
    /\ remaining' = duration_secs
    /\ running' = auto
    /\ last_tick' = clock
    /\ label' = lbl
    /\ out' = {"header", "status"}
    /\ pc' = "loop"
    /\ started' = started + 1
    /\ t0' = clock
    /\ last' = NoTick
    /\ runTime' = 0
    /\ announced' = FALSE
    /\ UNCHANGED <<gk, term, old_settings, key, autostart, last_sound, clock,
                   result, cfgVars, unwound>>

\* Line 197: run_timer(focus, "FOCUS", autostart).
CallFocus ==
    /\ pc = "call_focus"
    /\ started < MaxIntervals
    /\ RunTimerStart(focus, "FOCUS", autostart)
    /\ Frame

\* The BREAK call is given the focus length.
CallBreak_FocusLength ==
    /\ pc = "call_break"
    /\ started < MaxIntervals
    /\ RunTimerStart(focus, "BREAK", TRUE)
    /\ Frame

\* Line 199: run_timer(break_time, "BREAK", autostart=True).
CallBreak ==
    /\ pc = "call_break"
    /\ started < MaxIntervals
    /\ RunTimerStart(break_time, "BREAK", TRUE)
    /\ Frame

\* Line 145: the test of `while remaining > 0`.  When it holds the iteration
\* begins with the call of get_key (line 146); when it fails the completion
\* banner is printed and last_sound is set (lines 167-168).
LoopTest ==
    /\ pc = "loop"
    /\ IF remaining > 0
         THEN /\ pc' = "poll"
              /\ gk' = "entry"
              /\ out' = {}
              /\ UNCHANGED last_sound
         ELSE /\ pc' = "announce"
              /\ last_sound' = 0
              /\ out' = {"complete"}
              /\ UNCHANGED gk
    /\ UNCHANGED <<term, old_settings, key, label, autostart, timerVars, clock,
                   result, cfgVars, started, ghostTick, announced, unwound>>
    /\ Frame

\* --------------------------------------------------------------- get_key
\* Lines 91-92: old_settings = termios.tcgetattr(fd).
GetKeySave ==
    /\ gk = "entry"
    /\ old_settings' = term
    /\ gk' = "try"
    /\ UNCHANGED <<pc, term, key, label, autostart, timerVars, last_sound, clock,
                   result, cfgVars, out, started, ghostTick, announced, unwound>>

\* Lines 93-94: inside the try, tty.setraw(fd).
GetKeySetRaw ==
    /\ gk = "try"
    /\ term' = "raw"
    /\ gk' = "select"
    /\ UNCHANGED <<pc, old_settings, key, label, autostart, timerVars, last_sound,
                   clock, result, cfgVars, out, started, ghostTick, announced,
                   unwound>>

\* Lines 96-100: select waits d units; a readable stdin gives the byte read
\* (or "" at end of input), a timeout gives None; the finally clause restores
\* the saved attributes and get_key returns to its caller (line 148 or 174).
GetKeyWait ==
    /\ gk = "select"
    /\ \E d \in 0..MaxStep :
         /\ clock + d <= MaxClock
         /\ clock' = clock + d
         /\ runTime' = runTime + (IF pc = "poll" /\ running THEN d ELSE 0)
    /\ \E k \in Chars \cup {NoKey} : key' = k
    /\ term' = old_settings
    /\ gk' = "idle"
    /\ pc' = IF pc = "poll" THEN "handle" ELSE "ack"
    /\ UNCHANGED <<old_settings, label, autostart, timerVars, last_sound, result,
                   cfgVars, out, started, t0, last, announced, unwound>>

\* The three steps of get_key as actions of Spec.
GkSave == GetKeySave /\ Frame
GkSetRaw == GetKeySetRaw /\ Frame
GkWait == GetKeyWait /\ Frame

\* Variants of the loop's branches, each with one slip, used to test the
\* properties.
\* last_tick is not reset when the key is " " (line 150 missing).
HandleToggle_StaleTick ==
    /\ pc = "handle"
    /\ key = Toggle
    /\ \E lag \in 0..MaxLag :
         /\ lag > 0 => ~running
         /\ clock + lag <= MaxClock
         /\ running' = ~running
         /\ clock' = clock + lag
         /\ IF ~running
              THEN /\ remaining' = remaining - ((clock + lag) - last_tick)
                   /\ last_tick' = clock + lag
              ELSE /\ remaining' = remaining
                   /\ last_tick' = last_tick
         /\ runTime' = runTime + lag
         /\ last' = [key |-> key, d |-> (clock + lag) - t0,
                     run0 |-> running, rem0 |-> remaining,
                     pair |-> last.key = Toggle /\ last.d = 0 /\ clock + lag = t0]
         /\ t0' = clock + lag
    /\ out' = {"status"}
    /\ pc' = "loop"
    /\ UNCHANGED <<gk, term, old_settings, key, label, autostart, last_sound,
                   result, cfgVars, started, announced, unwound>>
    /\ Frame

\* The test for "q" comes after the countdown update and the rendering.
HandleQuit_AfterCountdown ==
    /\ pc = "handle"
    /\ key = Quit
    /\ IF running
         THEN /\ remaining' = remaining - (clock - last_tick)
              /\ last_tick' = clock
         ELSE UNCHANGED <<remaining, last_tick>>
    /\ result' = Aborted
    /\ out' = {"status", "quitmsg"}
    /\ pc' = "ret"
    /\ UNCHANGED <<gk, term, old_settings, key, label, autostart, running,
                   last_sound, clock, cfgVars, started, ghostTick, announced,
                   unwound>>
    /\ Frame

\* A fixed decrement of one unit per tick instead of the measured time.
HandleNoKey_FixedDecrement ==
    /\ pc = "handle"
    /\ key \notin {Toggle, Skip, Quit}
    /\ IF running
         THEN /\ remaining' = remaining - 1
              /\ last_tick' = clock
         ELSE UNCHANGED <<remaining, last_tick>>
    /\ last' = [key |-> key, d |-> clock - t0, run0 |-> running, rem0 |-> remaining,
                pair |-> FALSE]
    /\ t0' = clock
    /\ out' = {"status"}
    /\ pc' = "loop"
    /\ UNCHANGED <<gk, term, old_settings, key, label, autostart, running,
                   last_sound, clock, result, cfgVars, started, runTime,
                   announced, unwound>>
    /\ Frame

\* In the completion loop "s" returns "skip" as it does in the countdown loop.
Ack_SkipKey ==
    /\ pc = "ack"
    /\ IF key \notin {NoKey, EOF}
         THEN /\ result' = IF key = Quit THEN Aborted
                           ELSE IF key = Skip THEN Skipped ELSE Finished
              /\ out' = IF key = Quit THEN {"quitmsg"} ELSE {}
              /\ pc' = "ret"
         ELSE /\ pc' = "announce"
              /\ out' = {}
              /\ UNCHANGED result
    /\ UNCHANGED <<gk, term, old_settings, key, label, autostart, timerVars,
                   last_sound, clock, cfgVars, started, ghostTick, announced,
                   unwound>>
    /\ Frame

\* play_sound is called in every round of the completion loop (the test of
\* line 170 missing).
Announce_NoRateLimit ==
    /\ pc = "announce"
    /\ \E lag \in 0..MaxLag :
         /\ clock + lag <= MaxClock
         /\ clock' = clock + lag
         /\ last_sound' = clock + lag
         /\ out' = {"announce"}
         /\ announced' = TRUE
    /\ pc' = "cpoll"
    /\ gk' = "entry"
    /\ UNCHANGED <<term, old_settings, key, label, autostart, timerVars, result,
                   cfgVars, started, ghostTick, unwound>>
    /\ Frame

\* The running branch moves last_tick and subtracts nothing (line 161
\* missing).
HandleNoKey_NoDecrement ==
    /\ pc = "handle"
    /\ key \notin {Toggle, Skip, Quit}
    /\ IF running
         THEN /\ remaining' = remaining
              /\ last_tick' = clock
         ELSE UNCHANGED <<remaining, last_tick>>
    /\ last' = [key |-> key, d |-> clock - t0, run0 |-> running, rem0 |-> remaining,
                pair |-> FALSE]
    /\ t0' = clock
    /\ out' = {"status"}
    /\ pc' = "loop"
    /\ UNCHANGED <<gk, term, old_settings, key, label, autostart, running,
                   last_sound, clock, result, cfgVars, started, runTime,
                   announced, unwound>>
    /\ Frame

\* ----------------------------------------------- run_timer, countdown loop
\* Lines 148-150 and 158-165, key == " ": running is flipped and last_tick is
\* read from the clock; when the interval is now running, the second clock
\* read (line 159) comes lag units later and that much is subtracted.
HandleToggle ==
    /\ pc = "handle"
    /\ key = Toggle
    /\ \E lag \in 0..MaxLag :
         /\ lag > 0 => ~running
         /\ clock + lag <= MaxClock
         /\ running' = ~running
         /\ clock' = clock + lag
         /\ IF ~running
              THEN /\ remaining' = remaining - ((clock + lag) - clock)
                   /\ last_tick' = clock + lag
              ELSE /\ remaining' = remaining
                   /\ last_tick' = clock
         /\ runTime' = runTime + lag
         /\ last' = [key |-> key, d |-> (clock + lag) - t0,
                     run0 |-> running, rem0 |-> remaining,
                     pair |-> last.key = Toggle /\ last.d = 0 /\ clock + lag = t0]
         /\ t0' = clock + lag
    /\ out' = {"status"}
    /\ pc' = "loop"
    /\ UNCHANGED <<gk, term, old_settings, key, label, autostart, last_sound,
                   result, cfgVars, started, announced, unwound>>
    /\ Frame

\* Lines 151-153, key == "s": return "skip".
HandleSkip ==
    /\ pc = "handle"
    /\ key = Skip
    /\ result' = Skipped
    /\ out' = {"skipmsg"}
    /\ pc' = "ret"
    /\ UNCHANGED <<gk, term, old_settings, key, label, autostart, timerVars,
                   last_sound, clock, cfgVars, started, ghostTick, announced,
                   unwound>>
    /\ Frame

\* Lines 154-156, key == "q": return None.
HandleQuit ==
    /\ pc = "handle"
    /\ key = Quit
    /\ result' = Aborted
    /\ out' = {"quitmsg"}
    /\ pc' = "ret"
    /\ UNCHANGED <<gk, term, old_settings, key, label, autostart, timerVars,
                   last_sound, clock, cfgVars, started, ghostTick, announced,
                   unwound>>
    /\ Frame

\* Lines 158-165 with a key that matches no branch (None, "", any other byte):
\* while running, the time since last_tick is subtracted and last_tick is
\* moved to now; the status line is rendered.
HandleNoKey ==
    /\ pc = "handle"
    /\ key \notin {Toggle, Skip, Quit}
    /\ IF running
         THEN /\ remaining' = remaining - (clock - last_tick)
              /\ last_tick' = clock
         ELSE UNCHANGED <<remaining, last_tick>>
    /\ last' = [key |-> key, d |-> clock - t0, run0 |-> running, rem0 |-> remaining,
                pair |-> FALSE]
    /\ t0' = clock
    /\ out' = {"status"}
    /\ pc' = "loop"
    /\ UNCHANGED <<gk, term, old_settings, key, label, autostart, running,
                   last_sound, clock, result, cfgVars, started, runTime,
                   announced, unwound>>
    /\ Frame

\* ---------------------------------------------- run_timer, completion loop
\* Lines 169-173: play_sound when at least SoundPeriod has passed since
\* last_sound (play_sound itself takes lag units), then call get_key.
Announce ==
    /\ pc = "announce"
    /\ IF clock - last_sound >= SoundPeriod
         THEN \E lag \in 0..MaxLag :
                /\ clock + lag <= MaxClock
                /\ clock' = clock + lag
                /\ last_sound' = clock + lag
                /\ out' = {"announce"}
                /\ announced' = TRUE
         ELSE /\ out' = {}
              /\ UNCHANGED <<clock, last_sound, announced>>
    /\ pc' = "cpoll"
    /\ gk' = "entry"
    /\ UNCHANGED <<term, old_settings, key, label, autostart, timerVars, result,
                   cfgVars, started, ghostTick, unwound>>
    /\ Frame

\* Lines 174-178: a truthy key ends the interval, "q" with None and any other
\* with True; None and "" are falsy and the loop goes round.
Ack ==
    /\ pc = "ack"
    /\ IF key \notin {NoKey, EOF}
         THEN /\ result' = IF key = Quit THEN Aborted ELSE Finished
              /\ out' = IF key = Quit THEN {"quitmsg"} ELSE {}
              /\ pc' = "ret"
         ELSE /\ pc' = "announce"
              /\ out' = {}
              /\ UNCHANGED result
    /\ UNCHANGED <<gk, term, old_settings, key, label, autostart, timerVars,
                   last_sound, clock, cfgVars, started, ghostTick, announced,
                   unwound>>
    /\ Frame

\* Variants of MainNext, each with one slip, used to test the properties.
\* The return value of the BREAK call is not tested.
MainNext_BreakUnchecked ==
    /\ pc = "ret"
    /\ IF result = Aborted /\ label = "FOCUS"
         THEN pc' = "done" /\ UNCHANGED autostart
         ELSE IF label = "FOCUS"
                THEN pc' = "call_break" /\ UNCHANGED autostart
                ELSE pc' = "call_focus" /\ autostart' = TRUE
    /\ out' = {}
    /\ UNCHANGED <<gk, term, old_settings, key, label, timerVars, last_sound,
                   clock, result, cfgVars, started, ghostTick, announced, unwound>>
    /\ Frame

\* The BREAK call is left out of the loop body.
MainNext_NoBreak ==
    /\ pc = "ret"
    /\ IF result = Aborted
         THEN pc' = "done" /\ UNCHANGED autostart
         ELSE pc' = "call_focus" /\ autostart' = TRUE
    /\ out' = {}
    /\ UNCHANGED <<gk, term, old_settings, key, label, timerVars, last_sound,
                   clock, result, cfgVars, started, ghostTick, announced, unwound>>
    /\ Frame

\* autostart is not set at the end of the round (line 201 missing).
MainNext_NoAutostart ==
    /\ pc = "ret"
    /\ IF result = Aborted
         THEN pc' = "done"
         ELSE IF label = "FOCUS"
                THEN pc' = "call_break"
                ELSE pc' = "call_focus"
    /\ out' = {}
    /\ UNCHANGED <<gk, term, old_settings, key, label, autostart, timerVars,
                   last_sound, clock, result, cfgVars, started, ghostTick,
                   announced, unwound>>
    /\ Frame

\* A skip ends the session like an abort does.
MainNext_SkipEnds ==
    /\ pc = "ret"
    /\ IF result \in {Aborted, Skipped}
         THEN pc' = "done" /\ UNCHANGED autostart
         ELSE IF label = "FOCUS"
                THEN pc' = "call_break" /\ UNCHANGED autostart
                ELSE pc' = "call_focus" /\ autostart' = TRUE
    /\ out' = {}
    /\ UNCHANGED <<gk, term, old_settings, key, label, timerVars, last_sound,
                   clock, result, cfgVars, started, ghostTick, announced, unwound>>
    /\ Frame

\* ------------------------------------------------------------------ main
\* Lines 197-201: the test of run_timer's return value.  None breaks out of
\* the loop; otherwise FOCUS is followed by BREAK, and BREAK by autostart =
\* True and the next round.
MainNext ==
    /\ pc = "ret"
    /\ IF result = Aborted
         THEN pc' = "done" /\ UNCHANGED autostart
         ELSE IF label = "FOCUS"
                THEN pc' = "call_break" /\ UNCHANGED autostart
                ELSE pc' = "call_focus" /\ autostart' = TRUE
    /\ out' = {}
    /\ UNCHANGED <<gk, term, old_settings, key, label, timerVars, last_sound,
                   clock, result, cfgVars, started, ghostTick, announced, unwound>>
    /\ Frame

InTry == {"call_focus", "call_break", "loop", "poll", "handle", "announce",
          "cpoll", "ack", "ret"}

\* Variant of Interrupt: get_key restores the terminal only on its normal
\* return (no try/finally), used to test the properties.
Interrupt_NoFinally ==
    /\ pc \in InTry
    /\ term' = term
    /\ unwound' = gk
    /\ gk' = "idle"
    /\ old_settings' = "unset"
    /\ key' = NoKey
    /\ remaining' = 0 /\ running' = FALSE /\ last_tick' = 0 /\ last_sound' = 0
    /\ t0' = clock /\ last' = NoTick /\ runTime' = 0 /\ announced' = FALSE
    /\ out' = {"interrupted"}
    /\ pc' = "interrupted"
    /\ UNCHANGED <<label, autostart, clock, result, cfgVars, started>>
    /\ Frame

\* KeyboardInterrupt raised anywhere inside main's try (lines 194-201).  When
\* it is raised inside get_key's try (lines 93-97) the finally clause (line
\* 99) restores old_settings on the way out; the frames of get_key and
\* run_timer are unwound (their locals are gone, written here as their
\* initial values); main's except clause (lines 203-204) prints the notice
\* and main returns.
Interrupt ==
    /\ pc \in InTry
    /\ term' = IF gk \in {"try", "select"} THEN old_settings ELSE term
    /\ unwound' = gk
    /\ gk' = "idle"
    /\ old_settings' = "unset"
    /\ key' = NoKey
    /\ remaining' = 0 /\ running' = FALSE /\ last_tick' = 0 /\ last_sound' = 0
    /\ t0' = clock /\ last' = NoTick /\ runTime' = 0 /\ announced' = FALSE
    /\ out' = {"interrupted"}
    /\ pc' = "interrupted"
    /\ UNCHANGED <<label, autostart, clock, result, cfgVars, started>>
    /\ Frame

\* Under Spec the key a poll returns is any of the values get_key can return;
\* the keyboard behind it is not modelled.
Next ==
    \/ CallFocus
    \/ CallBreak
    \/ LoopTest
    \/ GkSave
    \/ GkSetRaw
    \/ GkWait
    \/ HandleToggle
    \/ HandleSkip
    \/ HandleQuit
    \/ HandleNoKey
    \/ Announce
    \/ Ack
    \/ MainNext
    \/ Interrupt

Spec == Init /\ [][Next]_vars

\* ------------------------------------------------------------- the keyboard
\* SpecKeys puts a keyboard behind get_key.  A byte typed goes to the
\* terminal's input queue; tty.setraw (tcsetattr with TCSAFLUSH, its default)
\* discards what is queued there; select looks at the terminal only; and
\* sys.stdin.read(1) returns one character, from sys.stdin's own buffer when
\* it holds any and otherwise after reading into it everything the terminal
\* has queued.
Keys == {Toggle, Skip, Quit}

\* The user types a byte while the session loop runs.
Press ==
    /\ pc \in InTry
    /\ Len(tty_in) + Len(stdin_buf) < MaxPending
    /\ \E k \in Keys :
         /\ tty_in' = Append(tty_in, k)
         /\ qPressed' = (qPressed \/ k = Quit)
    /\ UNCHANGED <<stdin_buf, qAtPoll>>
    /\ UNCHANGED timerAll
    /\ UNCHANGED <<codecVars, startVars, quiet>>

\* Lines 91-92, the beginning of a poll.
GkSaveKb ==
    /\ GetKeySave
    /\ SoundHistory
    /\ qAtPoll' = qPressed
    /\ UNCHANGED <<tty_in, stdin_buf, qPressed>>
    /\ UNCHANGED <<codecVars, startVars, quiet>>

\* Line 94: tty.setraw(fd) discards the terminal's queued input.
GkSetRawKb ==
    /\ GetKeySetRaw
    /\ SoundHistory
    /\ tty_in' = <<>>
    /\ UNCHANGED <<stdin_buf, qPressed, qAtPoll>>
    /\ UNCHANGED <<codecVars, startVars, quiet>>

\* Lines 96-100 with the keyboard: select times out when the terminal has
\* nothing queued, whatever sys.stdin's buffer holds; otherwise read(1)
\* returns one character.
GkWaitKb ==
    /\ GetKeyWait
    /\ SoundHistory
    /\ IF tty_in = <<>>
         THEN /\ key' = NoKey
              /\ UNCHANGED <<tty_in, stdin_buf>>
         ELSE IF stdin_buf # <<>>
                THEN /\ key' = Head(stdin_buf)
                     /\ stdin_buf' = Tail(stdin_buf)
                     /\ UNCHANGED tty_in
                ELSE /\ key' = Head(tty_in)
                     /\ stdin_buf' = Tail(tty_in)
                     /\ tty_in' = <<>>
    /\ qPressed' = (qPressed /\ key' # Quit)
    /\ UNCHANGED qAtPoll
    /\ UNCHANGED <<codecVars, startVars, quiet>>

NextKeys ==
    \/ Press
    \/ CallFocus
    \/ CallBreak
    \/ LoopTest
    \/ GkSaveKb
    \/ GkSetRawKb
    \/ GkWaitKb
    \/ HandleToggle
    \/ HandleSkip
    \/ HandleQuit
    \/ HandleNoKey
    \/ Announce
    \/ Ack
    \/ MainNext
    \/ Interrupt

\* The keyboard is explored with one configuration, both lengths MaxLen.
InitKeys == Init /\ focus = MaxLen /\ break_time = MaxLen

SpecKeys == InitKeys /\ [][NextKeys]_vars

\* ------------------------------------------------------ the quiet environment
\* From some moment on the user presses none of the bound keys and does not
\* interrupt, and every poll of the countdown loop takes time.
GoQuiet ==
    /\ ~quiet
    /\ quiet' = TRUE
    /\ UNCHANGED <<timerAll, kbVars, codecVars, startVars>>

\* get_key's select and read (lines 96-100) in that environment.
GkWaitLive ==
    /\ GetKeyWait
    /\ quiet => /\ key' \notin {Toggle, Skip, Quit}
                /\ pc = "poll" => clock' > clock
    /\ Frame

\* Ctrl-C, pressed only before the environment went quiet.
InterruptLive ==
    /\ ~quiet
    /\ Interrupt

\* The steps of the program itself.
ProgramStep ==
    \/ CallFocus
    \/ CallBreak
    \/ LoopTest
    \/ GkSave
    \/ GkSetRaw
    \/ GkWaitLive
    \/ HandleToggle
    \/ HandleSkip
    \/ HandleQuit
    \/ HandleNoKey
    \/ Announce
    \/ Ack
    \/ MainNext

NextLive ==
    \/ CallFocus
    \/ CallBreak
    \/ LoopTest
    \/ GkSave
    \/ GkSetRaw
    \/ GkWaitLive
    \/ HandleToggle
    \/ HandleSkip
    \/ HandleQuit
    \/ HandleNoKey
    \/ Announce
    \/ Ack
    \/ MainNext
    \/ InterruptLive
    \/ GoQuiet

\* The program is one thread that always takes its next step; select returns
\* after its timeout at the latest.
SpecLive == InitKeys /\ [][NextLive]_vars /\ WF_vars(ProgramStep)

\* ------------------------------------------------------- the duration codec
\* Texts are sequences of one-character strings.  A number is written
\* [kind |-> "num", n, k]: n * 10^-k with no trailing zero in the fraction
\* (floating-point rounding is not modelled); float("nan") * 60 is
\* [kind |-> "nan"].
DigitChars == <<"0", "1", "2", "3", "4", "5", "6", "7", "8", "9">>
Digits == {DigitChars[i] : i \in 1..10}
DigitVal(c) == (CHOOSE i \in 1..10 : DigitChars[i] = c) - 1

RECURSIVE Pow10(_)
Pow10(k) == IF k = 0 THEN 1 ELSE 10 * Pow10(k - 1)

RECURSIVE Normal(_, _)
Normal(n, k) ==
    IF k > 0 /\ n % 10 = 0 THEN Normal(n \div 10, k - 1)
    ELSE [kind |-> "num", n |-> n, k |-> k]

Num(n) == [kind |-> "num", n |-> n, k |-> 0]
NaN == [kind |-> "nan"]

\* str(n) for a natural number n, as the f-strings of lines 68, 72, 76 give it.
RECURSIVE IntToStr(_)
IntToStr(n) ==
    IF n < 10 THEN <<DigitChars[n + 1]>>
    ELSE Append(IntToStr(n \div 10), DigitChars[(n % 10) + 1])

\* int(s) for a text s of decimal digits (lines 52, 53).
RECURSIVE StrToInt(_)
StrToInt(s) ==
    IF s = <<>> THEN 0
    ELSE 10 * StrToInt(SubSeq(s, 1, Len(s) - 1)) + DigitVal(s[Len(s)])

\* format_duration without the remainder of line 69 (secs %= 3600).
format_duration_NoRemainder(secs) ==
    LET hpart == IF secs >= 3600 THEN IntToStr(secs \div 3600) \o <<"h">> ELSE <<>>
        s1 == secs
        mpart == IF s1 >= 60 THEN IntToStr(s1 \div 60) \o <<"m">> ELSE <<>>
        s2 == IF s1 >= 60 THEN s1 % 60 ELSE s1
        parts == hpart \o mpart
    IN IF s2 > 0 \/ parts = <<>> THEN parts \o IntToStr(s2) \o <<"s">> ELSE parts

\* Lines 63-79 for a whole number of seconds (for which line 75 holds, so the
\* .2g branch of line 78 is not taken).
format_duration(secs) ==
    LET hpart == IF secs >= 3600 THEN IntToStr(secs \div 3600) \o <<"h">> ELSE <<>>
        s1 == IF secs >= 3600 THEN secs % 3600 ELSE secs
        mpart == IF s1 >= 60 THEN IntToStr(s1 \div 60) \o <<"m">> ELSE <<>>
        s2 == IF s1 >= 60 THEN s1 % 60 ELSE s1
        parts == hpart \o mpart
    IN IF s2 > 0 \/ parts = <<>> THEN parts \o IntToStr(s2) \o <<"s">> ELSE parts

\* str.strip() and str.lower() (line 48) on the characters used here.
RECURSIVE Strip(_)
Strip(s) ==
    IF s = <<>> THEN s
    ELSE IF Head(s) = " " THEN Strip(Tail(s))
    ELSE IF s[Len(s)] = " " THEN Strip(SubSeq(s, 1, Len(s) - 1))
    ELSE s

Lower(s) == [i \in 1..Len(s) |-> IF s[i] = "H" THEN "h" ELSE s[i]]

\* The number of digits of s from position i on.
RECURSIVE DigitRun(_, _)
DigitRun(s, i) ==
    IF i <= Len(s) /\ s[i] \in Digits THEN 1 + DigitRun(s, i + 1) ELSE 0

At(s, i) == IF i >= 1 /\ i <= Len(s) THEN s[i] ELSE "$"

\* Line 50: re.match(r'^(?:(\d+)h)?(?:(\d+)m)?(?:(\d+(?:\.\d+)?)s)?$', s).
\* The result names whether the pattern matches and, for each group, its text
\* (<<>> for a group that did not take part); the seconds group is given as
\* its integer and fraction digits.
ReMatch(s) ==
    LET p1 == DigitRun(s, 1)
        hasH == p1 > 0 /\ At(s, 1 + p1) = "h"
        i2 == IF hasH THEN p1 + 2 ELSE 1
        p2 == DigitRun(s, i2)
        hasM == p2 > 0 /\ At(s, i2 + p2) = "m"
        i3 == IF hasM THEN i2 + p2 + 1 ELSE i2
        p3 == DigitRun(s, i3)
        q3 == IF p3 > 0 /\ At(s, i3 + p3) = "." THEN DigitRun(s, i3 + p3 + 1) ELSE 0
        hasFrac == q3 > 0 /\ At(s, i3 + p3 + 1 + q3) = "s"
        hasInt == p3 > 0 /\ At(s, i3 + p3) = "s"
        hasS == hasFrac \/ hasInt
        end == IF hasFrac THEN i3 + p3 + q3 + 2
               ELSE IF hasInt THEN i3 + p3 + 1 ELSE i3
    IN [ok |-> end = Len(s) + 1,
        h |-> IF hasH THEN SubSeq(s, 1, p1) ELSE <<>>,
        m |-> IF hasM THEN SubSeq(s, i2, i2 + p2 - 1) ELSE <<>>,
        si |-> IF hasS THEN SubSeq(s, i3, i3 + p3 - 1) ELSE <<>>,
        sf |-> IF hasFrac THEN SubSeq(s, i3 + p3 + 1, i3 + p3 + q3) ELSE <<>>]

\* float(s) (lines 54, 58) for a stripped text over the characters used here:
\* an optional "-", then "nan", or digits with an optional point and
\* fraction, or a point and digits.  ok = FALSE stands for ValueError.
FloatOf(s) ==
    LET neg == s # <<>> /\ Head(s) = "-"
        r == IF neg THEN Tail(s) ELSE s
        p == DigitRun(r, 1)
        dot == At(r, p + 1) = "."
        q == IF dot THEN DigitRun(r, p + 2) ELSE 0
        isNum == /\ p + q > 0
                 /\ Len(r) = p + (IF dot THEN 1 + q ELSE 0)
        n == StrToInt(SubSeq(r, 1, p)) * Pow10(q) + StrToInt(SubSeq(r, p + 2, p + 1 + q))
    IN IF r = <<"n", "a", "n">> THEN [ok |-> TRUE, v |-> NaN]
       ELSE IF isNum THEN [ok |-> TRUE, v |-> [kind |-> "num", n |-> IF neg THEN -n ELSE n, k |-> q]]
       ELSE [ok |-> FALSE, v |-> NaN]

\* Lines 43-60.
parse_duration(value, default_secs) ==
    IF value = <<>> THEN Num(default_secs)
    ELSE
      LET v == Lower(Strip(value))
          mt == ReMatch(v)
          any == mt.h # <<>> \/ mt.m # <<>> \/ mt.si # <<>>
          hours == StrToInt(mt.h)
          mins == StrToInt(mt.m)
          k == Len(mt.sf)
          secs == StrToInt(mt.si) * Pow10(k) + StrToInt(mt.sf)
          f == FloatOf(v)
      IN IF mt.ok /\ any
           THEN Normal((hours * 3600 + mins * 60) * Pow10(k) + secs, k)
         ELSE IF f.ok
           THEN IF f.v.kind = "nan" THEN NaN ELSE Normal(f.v.n * 60, f.v.k)
         ELSE Num(default_secs)

\* The characters of the texts typed at the prompt, and the texts.
Alphabet == {"0", "1", ".", "h", "m", "s", "-", " ", "n", "a", "H"}
Texts == UNION {[1..n -> Alphabet] : n \in 0..MaxText}
Fallbacks == {0, 42}

\* hint = format_duration(default_secs) (line 84), for any whole duration.
FormatStep ==
    /\ cpc = "idle"
    /\ \E d \in 0..MaxDur :
         /\ dur' = d
         /\ text' = format_duration(d)
    /\ fallback' = 0
    /\ origin' = "format"
    /\ cpc' = "formatted"
    /\ UNCHANGED parsed
    /\ UNCHANGED <<timerAll, kbVars, startVars, quiet>>

\* value = input(...) (line 85): any text, with any default.
InputStep ==
    /\ cpc = "idle"
    /\ \E t \in Texts : text' = t
    /\ \E fb \in Fallbacks : fallback' = fb
    /\ origin' = "input"
    /\ cpc' = "typed"
    /\ UNCHANGED <<dur, parsed>>
    /\ UNCHANGED <<timerAll, kbVars, startVars, quiet>>

\* parse_duration(value, default_secs) (line 86).
ParseStep ==
    /\ cpc \in {"formatted", "typed"}
    /\ parsed' = parse_duration(text, fallback)
    /\ cpc' = "parsed"
    /\ UNCHANGED <<origin, dur, text, fallback>>
    /\ UNCHANGED <<timerAll, kbVars, startVars, quiet>>

NextCodec ==
    \/ FormatStep
    \/ InputStep
    \/ ParseStep

SpecCodec == InitKeys /\ [][NextCodec]_vars

\* ------------------------------------------------------------------ startup
\* JSON values a preference file may hold.  A field of a record is absent,
\* null, a text or a number.
StoredNums == {0, 60, 300, 1500}
FieldValues ==
    {[t |-> "absent"], [t |-> "null"], [t |-> "text"]}
        \cup {[t |-> "num", v |-> n] : n \in StoredNums}
JsonValues ==
    {[kind |-> "list"], [kind |-> "number"]}
        \cup {[kind |-> "record", focus |-> f, break |-> b] :
                  f \in FieldValues, b \in FieldValues}
FileStates ==
    {[kind |-> "missing"], [kind |-> "unreadable"],
     [kind |-> "not_text"], [kind |-> "not_json"]}
        \cup {[kind |-> "json", value |-> j] : j \in JsonValues}

\* Line 33.
BuiltIn ==
    [kind |-> "record", focus |-> [t |-> "num", v |-> 1500],
                        break |-> [t |-> "num", v |-> 300]]

\* load_defaults (lines 25-33), called at line 182.  A missing file fails the
\* test of line 27; an unreadable one raises IOError at line 29 and text that
\* is not JSON raises JSONDecodeError at line 30, both caught at line 31;
\* bytes that are not UTF-8 raise UnicodeDecodeError, which line 31 does not
\* catch; any JSON value is returned as it is.
LoadDefaults ==
    /\ spc = "start"
    /\ \E f \in FileStates :
         /\ file' = f
         /\ IF f.kind \in {"missing", "unreadable", "not_json"}
              THEN defaults' = BuiltIn /\ spc' = "loaded" /\ err' = err
            ELSE IF f.kind = "not_text"
              THEN defaults' = defaults /\ spc' = "failed"
                   /\ err' = "UnicodeDecodeError"
            ELSE defaults' = f.value /\ spc' = "loaded" /\ err' = err
    /\ UNCHANGED given
    /\ UNCHANGED <<timerAll, kbVars, codecVars, quiet>>

\* The exception of get_input(prompt, defaults[name]) (lines 187, 188), "-" if
\* none: indexing a value that is not a record raises TypeError, a missing
\* key KeyError, and format_duration (line 66, called at line 84) raises
\* TypeError on a value that is not a number.
PromptError(name) ==
    IF defaults.kind # "record" THEN "TypeError"
    ELSE IF defaults[name].t = "absent" THEN "KeyError"
    ELSE IF defaults[name].t # "num" THEN "TypeError"
    ELSE "-"

\* Line 187.
FocusPrompt ==
    /\ spc = "loaded"
    /\ IF PromptError("focus") = "-"
         THEN given' = Append(given, defaults.focus.v) /\ spc' = "focus_set"
              /\ err' = err
         ELSE given' = given /\ spc' = "failed" /\ err' = PromptError("focus")
    /\ UNCHANGED <<file, defaults>>
    /\ UNCHANGED <<timerAll, kbVars, codecVars, quiet>>

\* Line 188.
BreakPrompt ==
    /\ spc = "focus_set"
    /\ IF PromptError("break") = "-"
         THEN given' = Append(given, defaults.break.v) /\ spc' = "configured"
              /\ err' = err
         ELSE given' = given /\ spc' = "failed" /\ err' = PromptError("break")
    /\ UNCHANGED <<file, defaults>>
    /\ UNCHANGED <<timerAll, kbVars, codecVars, quiet>>

NextStartup ==
    \/ LoadDefaults
    \/ FocusPrompt
    \/ BreakPrompt

SpecStartup == InitKeys /\ [][NextStartup]_vars

TypeOK ==
    /\ pc \in InTry \cup {"done", "interrupted"}
    /\ gk \in {"idle", "entry", "try", "select"}
    /\ term \in {"cooked", "raw"}
    /\ key \in Chars \cup {NoKey}
    /\ remaining \in Int /\ clock \in StartClock..MaxClock
    /\ started \in 0..MaxIntervals

\* ================================================================ claims
IntervalStarts == started' # started

\* C1: once a run_timer call has returned None (Aborted), no further interval
\* is started: the only steps left are main leaving the loop (or the
\* interrupt handler), and the number of intervals started never changes.
C1_AbortEndsSession ==
    [][result = Aborted =>
         /\ started' = started
         /\ result' = Aborted
         /\ pc' \in {"done", "interrupted"}]_vars

\* An abort during the second interval (a BREAK) has ended the session.
C1_Witness ==
    pc = "done" /\ result = Aborted /\ label = "BREAK" /\ started = 2

\* C2: the first interval started is FOCUS, every later one has the label the
\* previous one did not have, and it is started only after the previous one
\* returned Finished or Skipped.
C2_LabelsAlternate ==
    [][IntervalStarts =>
         /\ label' = IF started = 0 \/ label = "BREAK" THEN "FOCUS" ELSE "BREAK"
         /\ started > 0 => result \in {Finished, Skipped}]_vars

\* The third interval is a FOCUS, started after the BREAK before it finished.
C2_Witness ==
    started = 3 /\ label = "FOCUS" /\ result = Finished /\ out = {"header", "status"}

\* C3: the first interval starts with running = FALSE (Paused) and every later
\* one with running = TRUE, whatever the earlier intervals returned.
C3_InitialRunning ==
    [][IntervalStarts => running' = (started >= 1)]_vars

\* The second FOCUS has just started, Running, after the BREAK was skipped.
C3_Witness ==
    /\ started = 3 /\ label = "FOCUS" /\ out = {"header", "status"}
    /\ running /\ result = Skipped

Interrupted == pc' = "interrupted"
Configured == IF label = "FOCUS" THEN focus ELSE break_time
InCountdown == pc \in {"poll", "handle"}
InComplete == pc \in {"announce", "cpoll", "ack"}
Audible == {"status", "announce"}

\* C4: the step that handles a key "q" returns None (Aborted) at once, in the
\* countdown loop and in the completion loop alike: remaining, running and
\* the clock are as they were when the key was read, no status line is
\* rendered and play_sound is not called; and nothing is rendered or played
\* after the return.
C4_QuitAbortsAtOnce ==
    [][/\ (pc \in {"handle", "ack"} /\ key = Quit /\ ~Interrupted) =>
            /\ pc' = "ret" /\ result' = Aborted
            /\ remaining' = remaining /\ running' = running /\ clock' = clock
            /\ out' \cap Audible = {}
            /\ announced' = announced
       /\ result = Aborted => out' \cap Audible = {}]_vars

\* Quit was read while Running with time elapsed since last_tick and part of
\* the interval left: run_timer has returned None, that time not subtracted.
C4_Witness ==
    /\ pc = "ret" /\ result = Aborted /\ key = Quit
    /\ running /\ remaining > 0 /\ remaining < Configured
    /\ clock > last_tick

\* C5: in the countdown loop (remaining > 0, Paused or Running) the step that
\* handles a key "s" returns "skip" at once: remaining is untouched, the
\* completion loop was never entered and play_sound never called in this
\* interval; main then goes on to the next run_timer call, not out of the loop.
C5_SkipEndsInterval ==
    [][/\ (pc = "handle" /\ key = Skip /\ ~Interrupted) =>
            /\ remaining > 0
            /\ pc' = "ret" /\ result' = Skipped
            /\ remaining' = remaining /\ running' = running /\ clock' = clock
            /\ out' \cap Audible = {}
            /\ ~announced'
       /\ (pc = "ret" /\ result = Skipped /\ ~Interrupted) =>
            pc' = IF label = "FOCUS" THEN "call_break" ELSE "call_focus"]_vars

\* A running FOCUS was skipped with time elapsed since last_tick, and main is
\* about to start the BREAK.
C5_Witness ==
    /\ pc = "call_break" /\ result = Skipped /\ key = Skip /\ label = "FOCUS"
    /\ running /\ remaining > 0 /\ clock > last_tick /\ ~announced

\* C6: a tick that ends with running = FALSE leaves remaining as it was, and
\* what has been subtracted from the configured length never exceeds the
\* wall-clock time the interval has spent with running = TRUE, so no time
\* spent Paused is ever subtracted, before or after a resume.
C6_PausedTimeNotCounted ==
    /\ [][(pc = "handle" /\ pc' = "loop" /\ ~running') => remaining' = remaining]_vars
    /\ [](pc \in InTry /\ started > 0 => Configured - remaining <= runTime)

\* In the first interval (which began at StartClock) more wall-clock time has
\* passed than the interval has spent running, and the last tick was a running
\* one that subtracted elapsed time.
C6_Witness ==
    /\ started = 1 /\ pc = "loop" /\ running
    /\ clock - StartClock > runTime
    /\ last.key = NoKey /\ last.run0 /\ last.d > 0
    /\ Configured - remaining = runTime /\ runTime > 0

\* C7: a tick with no bound key (None, "" or another byte) while running
\* subtracts from remaining exactly the time since the end of the previous
\* tick and leaves running TRUE; when remaining is still positive the loop
\* goes on to the next poll, still running.
C7_RunningTickSubtractsElapsed ==
    [][/\ (pc = "handle" /\ key \notin {Toggle, Skip, Quit} /\ running /\ ~Interrupted) =>
            /\ remaining' = remaining - (clock' - t0)
            /\ running' /\ pc' = "loop"
       /\ (pc = "loop" /\ remaining > 0 /\ ~Interrupted) =>
            pc' = "poll" /\ running' = running /\ remaining' = remaining]_vars

\* remaining 2, one unit elapsed in a tick without a key: remaining 1, running,
\* and the next poll has begun.
C7_Witness ==
    /\ pc = "poll" /\ running /\ remaining = 1
    /\ last.key = NoKey /\ last.run0 /\ last.rem0 = 2 /\ last.d = 1

\* C8: with remaining <= 0 the interval is in the completion loop (or at the
\* loop test that leads there); in the completion loop remaining and running
\* never change, a poll that returns None or "" goes round again, "q" returns
\* None and every other key, " " and "s" included, returns True.
C8_CompleteUntilKey ==
    /\ [](/\ InCountdown => remaining > 0
          /\ InComplete => remaining <= 0)
    /\ [][/\ (pc = "loop" /\ remaining <= 0 /\ ~Interrupted) => pc' = "announce"
          /\ (InComplete /\ ~Interrupted) =>
               /\ remaining' = remaining /\ running' = running
               /\ pc' \in {"announce", "cpoll", "ack", "ret"}
               /\ pc' = "ret" =>
                    /\ pc = "ack" /\ key \notin {NoKey, EOF}
                    /\ result' = IF key = Quit THEN Aborted ELSE Finished
               /\ (pc = "ack" /\ key \in {NoKey, EOF}) => pc' = "announce"]_vars

\* A completed interval was acknowledged with the Skip key: run_timer returned
\* True.
C8_Witness ==
    /\ pc = "ret" /\ result = Finished /\ key = Skip
    /\ remaining <= 0 /\ announced /\ started = 2

\* C9: a " " key flips running; and when it is the second of two consecutive
\* " " ticks with no clock advance in either, running and remaining are back
\* at their values before the first.
C9_ToggleTwice ==
    [][(pc = "handle" /\ key = Toggle /\ ~Interrupted) =>
          /\ running' = ~running
          /\ (last.key = Toggle /\ last.d = 0 /\ clock' = t0) =>
                running' = last.run0 /\ remaining' = last.rem0]_vars

\* Two toggles with no time elapsed, after the interval had run for a while
\* and been paused for a while.
C9_Witness ==
    /\ last.pair /\ pc = "loop" /\ started = 1
    /\ runTime > 0 /\ clock - StartClock > runTime
    /\ remaining = Configured - runTime

C11_QuitSeenByNextPoll ==
    [][(gk = "select" /\ gk' = "idle" /\ ~Interrupted /\ qAtPoll) => key' = Quit]_vars

\* C12: parsing, with fallback 0, the text format_duration gives for a
\* non-negative whole number of seconds d yields d again.
C12_RoundTrip ==
    (cpc = "parsed" /\ origin = "format") => parsed = Num(dur)

C12_Witness ==
    /\ cpc = "parsed"
    /\ origin = "format"
    /\ dur = 3661
    /\ text = <<"1", "h", "1", "m", "1", "s">>
    /\ parsed = Num(3661)

\* A text that float() reads as a finite decimal number.
DecimalText(s) == FloatOf(s).ok /\ FloatOf(s).v.kind = "num"

\* A text of the composite form with at least one component.
CompositeText(s) ==
    LET mt == ReMatch(s) IN mt.ok /\ (mt.h # <<>> \/ mt.m # <<>> \/ mt.si # <<>>)

\* C13: parse_duration returns the fallback for the empty text, the sum of
\* the components for a composite text, sixty times the number for a bare
\* decimal number, and the fallback for every other text.
C13_ParseCases ==
    cpc = "parsed" =>
        LET v == Lower(Strip(text)) IN
        IF text = <<>> THEN parsed = Num(fallback)
        ELSE IF CompositeText(v)
          THEN LET mt == ReMatch(v)
                   k == Len(mt.sf)
               IN parsed = Normal((StrToInt(mt.h) * 3600 + StrToInt(mt.m) * 60) * Pow10(k)
                                  + StrToInt(mt.si) * Pow10(k) + StrToInt(mt.sf), k)
        ELSE IF DecimalText(v)
          THEN parsed = Normal(FloatOf(v).v.n * 60, FloatOf(v).v.k)
        ELSE parsed = Num(fallback)

\* C20: with a non-negative fallback, a number parse_duration returns is
\* never negative.
C20_NonNegative ==
    (cpc = "parsed" /\ fallback >= 0 /\ parsed.kind = "num") => parsed.n >= 0

\* The preference file holds a record with both values.
BothStored ==
    /\ file.kind = "json"
    /\ file.value.kind = "record"
    /\ file.value.focus.t # "absent"
    /\ file.value.break.t # "absent"

\* C14: whatever the preference file holds, startup does not fail, and the
\* prompts are given the stored values when both are stored and 1500 and 300
\* otherwise.
C14_StartupNeverFails ==
    /\ spc # "failed"
    /\ err = "-"
    /\ spc = "configured" =>
         given = IF BothStored
                   THEN <<file.value.focus.v, file.value.break.v>>
                   ELSE <<1500, 300>>

\* C15: at every tick boundary of an interval, the configured length minus
\* remaining equals the wall-clock time the interval has spent Running.
C15_RemainingAccountsRunning ==
    (pc = "loop" /\ started > 0) => Configured - remaining = runTime

\* A step in which play_sound is called.
PlaySoundCalled == "announce" \notin out /\ "announce" \in out'

\* C16: play_sound is called only in the completion loop, with remaining at
\* or below 0 and before the acknowledging key is read; the first call of a
\* Complete phase comes before its first key poll, and a later call comes at
\* least SoundPeriod after the call before it.
C16_SoundOnlyWhenComplete ==
    [][/\ PlaySoundCalled =>
            /\ pc = "announce"
            /\ remaining <= 0
            /\ announced => clock - sound_at >= SoundPeriod
       /\ pc' \in {"cpoll", "ack"} => announced']_vars

\* In the first interval, of length 0, a poll of the completion loop has
\* returned "" and play_sound has been called again after it.
C16_Witness ==
    /\ started = 1 /\ focus = 0
    /\ pc = "cpoll" /\ key = EOF
    /\ out = {"announce"}
    /\ sound_at >= StartClock + SoundPeriod

\* C17: an interval is in its completion loop only when it is Running; one
\* that started Paused and was never toggled does not get there.
C17_CompleteOnlyFromRunning ==
    InComplete => running

\* C18: every interval starts with remaining equal to the configured length
\* of its label, and no step changes the configured lengths.
C18_StartsAtConfigured ==
    [][/\ IntervalStarts =>
            remaining' = IF label' = "FOCUS" THEN focus ELSE break_time
       /\ focus' = focus
       /\ break_time' = break_time]_vars

\* The third interval, a FOCUS, has just started at the focus length, which
\* differs from the break length, after the BREAK before it finished.
C18_Witness ==
    /\ started = 3 /\ label = "FOCUS" /\ pc = "loop"
    /\ focus = 2 /\ break_time = 1
    /\ remaining = focus
    /\ result = Finished

\* C19: when the environment is quiet, an interval that is Running at a tick
\* boundary (with room left on the model's clock for its remaining time)
\* reaches its completion loop; and a Paused interval of positive length that
\* is given no bound key stays Paused in the countdown loop with remaining as
\* it was.
C19_RunningCompletes ==
    /\ (quiet /\ pc = "loop" /\ running /\ Configured > 0
          /\ clock + remaining <= MaxClock) ~> InComplete
    /\ [][(/\ quiet /\ ~running /\ Configured > 0
           /\ pc \in {"loop", "poll", "handle"}
           /\ pc = "handle" => key \notin {Toggle, Skip, Quit})
          => /\ pc' \in {"loop", "poll", "handle"}
             /\ ~running'
             /\ remaining' = remaining]_vars

\* The first interval, resumed by a Toggle, has run out in the quiet
\* environment with no key read in its last tick.
C19_Witness ==
    /\ quiet /\ started = 1
    /\ pc = "announce" /\ out = {"complete"}
    /\ running /\ remaining <= 0
    /\ key = NoKey

====
